---- MODULE Spec2Model ----
(***************************************************************************)
(* Model of data_modeling.ipynb: column detection, fold-local fitting,     *)
(* the cross-validation training loop, the inverse-error ensemble and the  *)
(* submission cell.                                                         *)
(*                                                                         *)
(* Four specifications share the variables:                                 *)
(*   SpecDetect  detect_columns applied to a drawn feature table           *)
(*   SpecFit     pipeline.fit of one fold applied to drawn X, y, folds      *)
(*   Spec        the run: training loop, ensemble cell, submission cell     *)
(*   SpecSmape   smape applied to drawn paired sequences                    *)
(***************************************************************************)
EXTENDS Integers, Sequences, FiniteSets, TLC

VARIABLES
    \* ---- detect_columns
    columns,            \* the feature table's schema: column -> [dtype, nunique]
    detected,           \* [ran, lists]: the five returned lists once it ran
    \* ---- fold-local fit
    X,                  \* one categorical feature column: row -> category
    bucket,             \* the bucket detect_columns gave that column
    encoder,            \* [fold, params]: the encoder fitted in that fold (0: none)
    \* ---- the run
    models,             \* active model names (keys of the dict `models`)
    y,                  \* target (log_price) per training row
    test_folds,         \* StratifiedKFold's fold of each row under SEED
    pc,                 \* the cell to run: "train" | "ensemble" | "submit" | "done"
    cur,                \* model the outer for loop is at (0: loop over)
    fold,               \* next fold of the inner loop (1..N_SPLITS)
    oof_preds,          \* model -> row -> value
    test_preds,         \* model -> test row -> value
    failed,             \* model -> [fold, stage] of the caught exception, or NoFail
    log,                \* models whose failure was printed
    oofWrites,          \* history: model -> row -> number of writes
    foldTest,           \* history: model -> sequence of per-fold test predictions
    prep_fitted,        \* fitted state held by the one `preprocess` object
    est_fitted,         \* model -> fitted state held by its estimator object
    fitSaw,             \* history: model -> per fit, the state found in the objects
    kf_calls,           \* number of kf.split calls made so far
    splitSeen,          \* history: model -> the folds its kf.split call drew
    errors,             \* ensemble cell: model -> SMAPE
    norm_weights,       \* ensemble cell: model -> weight
    ensemble_preds_log, \* ensemble cell: blended test predictions (log space)
    ensemble_oof_log,   \* ensemble cell: blended out-of-fold predictions
    submission,         \* [written, rows]: submission.csv
    \* ---- smape
    smape_args,         \* [t, p]: the arrays smape is called on
    smape_value         \* what the call returned (NoValue: not called)

detectVars == <<columns, detected>>
fitVars == <<X, bucket, encoder>>
dataVars == <<models, y, test_folds>>
loopVars == <<pc, cur, fold, oof_preds, test_preds, failed, log, oofWrites,
              foldTest, prep_fitted, est_fitted, fitSaw, kf_calls, splitSeen>>
ensVars == <<errors, norm_weights, ensemble_preds_log, ensemble_oof_log>>
smapeVars == <<smape_args, smape_value>>
vars == <<detectVars, fitVars, dataVars, loopVars, ensVars, submission, smapeVars>>

\* ---------------------------------------------------------------- bounds

NCols == 2          \* columns of the feature table
NRows == 3          \* training rows
NTest == 1          \* test rows
N_SPLITS == 2       \* folds (the notebook runs 10)
NModels == 2        \* length of the model registry (the notebook lists 3)

Rows == 1..NRows
TestRows == 1..NTest
Folds == 1..N_SPLITS
Registry == 1..NModels      \* registry order: 1 = XGB, 2 = LGBM, 3 = CatBoost

\* ------------------------------------------------------- detect_columns

\* Storage types of a column and numpy's dtype.kind for each.
Dtypes == {"bool", "int64", "uint8", "float64", "object"}

Kind(dtype) ==
    CASE dtype = "bool" -> "b"
      [] dtype = "int64" -> "i"
      [] dtype = "uint8" -> "u"
      [] dtype = "float64" -> "f"
      [] OTHER -> "O"

\* Distinct non-missing values of a column (Series.nunique()).
NUniqueVals == {0, 1, 2, 20, 21, 200, 201, 202}

ColNames == 1..NCols

Range(s) == {s[i] : i \in DOMAIN s}

\* X.columns, in order.
ColumnSeq == [c \in ColNames |-> c]

LOW_MAX == 20
MID_MAX == 200

IsLowStrict(n) == n < LOW_MAX
IsLow(n) == n <= LOW_MAX

IsMidOverlap(n) == LOW_MAX <= n /\ n <= MID_MAX
IsMid(n) == LOW_MAX < n /\ n <= MID_MAX

IsHigh(n) == n > MID_MAX

bool_cols(T) == SelectSeq(ColumnSeq, LAMBDA c : T[c].dtype = "bool")

num_cols(T) ==
    SelectSeq(ColumnSeq,
              LAMBDA c : Kind(T[c].dtype) \in {"i", "f"} /\ c \notin Range(bool_cols(T)))

cat_cols(T) ==
    SelectSeq(ColumnSeq, LAMBDA c : c \notin Range(num_cols(T) \o bool_cols(T)))

detect_columns(T) ==
    [num_cols |-> num_cols(T),
     bool_cols |-> bool_cols(T),
     cat_low |-> SelectSeq(cat_cols(T), LAMBDA c : IsLow(T[c].nunique)),
     cat_mid |-> SelectSeq(cat_cols(T), LAMBDA c : IsMid(T[c].nunique)),
     cat_high |-> SelectSeq(cat_cols(T), LAMBDA c : IsHigh(T[c].nunique))]

\* ------------------------------------------------------ data and folds

Cats == {"a", "b"}
Buckets == {"low", "mid", "high"}
YVals == {0, 1}             \* log_price values
PredVals == {0, 1}          \* values a fitted pipeline predicts

RECURSIVE SumOver(_, _)
SumOver(f, S) ==
    IF S = {} THEN 0
    ELSE LET r == CHOOSE r \in S : TRUE IN f[r] + SumOver(f, S \ {r})

\* KBinsDiscretizer(n_bins=10, encode='ordinal', strategy='quantile') on y:
\* an order-preserving bin label per row.  With the two values of YVals each
\* distinct value falls in a bin of its own.
y_bins(yv) == [r \in Rows |-> Cardinality({v \in Range(yv) : v < yv[r]})]

\* StratifiedKFold._make_test_folds: classes are numbered by first appearance,
\* the sorted class sequence is dealt round-robin to the folds (allocation),
\* and within a class the fold labels are shuffled by the RandomState(SEED).
FirstRow(yb, c) == CHOOSE r \in Rows : yb[r] = c /\ \A q \in Rows : yb[q] = c => r <= q

y_encoded(yb) ==
    [r \in Rows |-> Cardinality({c \in Range(yb) : FirstRow(yb, c) < FirstRow(yb, yb[r])})]

ClassCount(enc, c) == Cardinality({r \in Rows : enc[r] = c})

Allocation(enc, i, c) ==
    LET lo == Cardinality({r \in Rows : enc[r] < c})
        hi == lo + ClassCount(enc, c)
    IN Cardinality({p \in 0..(NRows - 1) : p % N_SPLITS = i /\ lo <= p /\ p < hi})

\* kf.split raises ValueError when n_splits exceeds the number of samples or
\* the number of members of every class.
SplitRaises(yb) ==
    LET enc == y_encoded(yb)
    IN \/ N_SPLITS > NRows
       \/ \A c \in Range(enc) : N_SPLITS > ClassCount(enc, c)

\* Every assignment the shuffle can produce; RandomState(SEED) picks one.
StratifiedKFoldSplits(yb) ==
    LET enc == y_encoded(yb)
        alloc == [i \in 0..(N_SPLITS - 1), c \in Range(enc) |-> Allocation(enc, i, c)]
    IN {tf \in [Rows -> 0..(N_SPLITS - 1)] :
            \A c \in Range(enc), i \in 0..(N_SPLITS - 1) :
                Cardinality({r \in Rows : enc[r] = c /\ tf[r] = i}) = alloc[i, c]}

NoFolds == [r \in Rows |-> 0]

KFoldOutcomes(yb) == IF SplitRaises(yb) THEN {NoFolds} ELSE StratifiedKFoldSplits(yb)

ValIdxUpTo(tf, k) == {r \in Rows : tf[r] <= k - 1}
ValIdx(tf, k) == {r \in Rows : tf[r] = k - 1}

TrainIdx(tf, k) == Rows \ ValIdx(tf, k)

\* ------------------------------------------------------- fold-local fit

\* Parameters an encoder learns from the rows it is fitted on.  OneHotEncoder
\* and OrdinalEncoder learn the categories; TargetEncoder also learns the
\* prior (target sum and count) and per category the target sum and count,
\* from which its smoothed means are computed.
EncoderFit(b, Xv, yv, rows) ==
    LET cats == {Xv[r] : r \in rows}
        of(c) == {r \in rows : Xv[r] = c}
    IN [kind |-> b,
        categories |-> cats,
        prior |-> IF b = "high" THEN <<SumOver(yv, rows), Cardinality(rows)>>
                  ELSE <<0, 0>>,
        mapping |-> [c \in cats |->
                        IF b = "high" THEN <<SumOver(yv, of(c)), Cardinality(of(c))>>
                        ELSE <<0, 0>>]]

\* The rows handed to pipeline.fit in fold k: X.iloc[train_idx], y.iloc[train_idx].
FitAllRows(tf, k) == Rows
PipelineFitRows(tf, k) == TrainIdx(tf, k)

NoEncoder == [fold |-> 0, params |-> EncoderFit("low", [r \in Rows |-> "a"], [r \in Rows |-> 0], {})]

\* ------------------------------------------------- floating-point values

\* A float64 is <<"num", n, d>> (the rational n/d in lowest terms, d > 0),
\* <<"inf", 0, 1>> (+inf) or <<"nan", 0, 1>>.  Rounding is not modelled; the
\* values that arise here are never negative infinity.
RECURSIVE GCD(_, _)
GCD(a, b) == IF b = 0 THEN a ELSE GCD(b, a % b)

Abs(n) == IF n < 0 THEN -n ELSE n

Num(n, d) ==
    LET g == GCD(Abs(n), Abs(d))
        s == IF d < 0 THEN -1 ELSE 1
    IN <<"num", s * (n \div g), s * (d \div g)>>

F(n) == <<"num", n, 1>>
Inf == <<"inf", 0, 1>>
NaN == <<"nan", 0, 1>>

IsNum(a) == a[1] = "num"
IsZero(a) == IsNum(a) /\ a[2] = 0

FAdd(a, b) ==
    IF a = NaN \/ b = NaN THEN NaN
    ELSE IF a = Inf \/ b = Inf THEN Inf
    ELSE LET g == GCD(a[3], b[3])
             l == (a[3] \div g) * b[3]
         IN Num(a[2] * (l \div a[3]) + b[2] * (l \div b[3]), l)

FNeg(a) == IF IsNum(a) THEN <<"num", -a[2], a[3]>> ELSE a

FSub(a, b) == FAdd(a, FNeg(b))

FAbs(a) == IF IsNum(a) THEN <<"num", Abs(a[2]), a[3]>> ELSE a

FMul(a, b) ==
    IF a = NaN \/ b = NaN THEN NaN
    ELSE IF a = Inf \/ b = Inf
         THEN (IF IsZero(a) \/ IsZero(b) THEN NaN ELSE Inf)
    ELSE LET g1 == GCD(Abs(a[2]), b[3])
             g2 == GCD(Abs(b[2]), a[3])
         IN Num((a[2] \div g1) * (b[2] \div g2), (a[3] \div g2) * (b[3] \div g1))

\* numpy float64 division: x / 0 is inf (nan for 0 / 0) with a warning, never
\* an exception.
FDiv(a, b) ==
    IF a = NaN \/ b = NaN THEN NaN
    ELSE IF b = Inf THEN (IF a = Inf THEN NaN ELSE F(0))
    ELSE IF a = Inf THEN Inf
    ELSE IF IsZero(b) THEN (IF IsZero(a) THEN NaN ELSE Inf)
    ELSE FMul(a, Num(b[3], b[2]))

FLess(a, b) == IsNum(a) /\ IsNum(b) /\ a[2] * b[3] < b[2] * a[3]

RECURSIVE FSum(_, _)
FSum(f, S) ==
    IF S = {} THEN F(0)
    ELSE LET r == CHOOSE r \in S : TRUE IN FAdd(f[r], FSum(f, S \ {r}))

\* np.exp on the log-price values of the model, to three decimals.
Exp(v) == IF v = 0 THEN Num(1000, 1000) ELSE Num(2718, 1000)

ExpArr(a) == [r \in DOMAIN a |-> Exp(a[r])]

\* ----------------------------------------------------------------- smape

smape_term_unguarded(t, p) ==
    LET denominator == FDiv(FAdd(FAbs(t), FAbs(p)), F(2))
        diff == FAbs(FSub(t, p))
    IN FDiv(diff, denominator)

\* smape_term = np.zeros_like(diff, dtype=float), then
\* smape_term[non_zero_denom] = diff[non_zero_denom] / denominator[non_zero_denom]
smape_term(t, p) ==
    LET denominator == FDiv(FAdd(FAbs(t), FAbs(p)), F(2))
        diff == FAbs(FSub(t, p))
    IN IF denominator # F(0) THEN FDiv(diff, denominator) ELSE F(0)

smape(y_true, y_pred) ==
    LET terms == [r \in DOMAIN y_true |-> smape_term(y_true[r], y_pred[r])]
    IN FMul(FDiv(FSum(terms, DOMAIN terms), F(Cardinality(DOMAIN terms))), F(100))

\* The arrays smape is called on: paired, of equal non-zero length.
MaxLen == 2
SmapeVals == {-1, 0, 1, 2}
SmapeInputs == UNION {[1..n -> SmapeVals] : n \in 1..MaxLen}

\* An integer array as numpy's arithmetic promotes it on true division.
AsFloat(a) == [i \in DOMAIN a |-> F(a[i])]

NoValue == <<"none", 0, 1>>

\* ---------------------------------------------------- the training loop

NoFail == [fold |-> 0, stage |-> "none"]
Unfitted == [model |-> 0, fold |-> 0]

\* Where an exception can leave fold k:
\*   split         kf.split or the .iloc indexing raises: fit is not entered
\*   fit_prep      the preprocess step's fit raises: nothing is refitted
\*   fit           the estimator's fit raises: preprocess is already refitted
\*   predict_val   pipeline.predict(X_val) raises: nothing is stored
\*   predict_test  pipeline.predict(X_test) raises: the fold's out-of-fold
\*                 predictions are stored, the test predictions are not
Stages == {"split", "fit_prep", "fit", "predict_val", "predict_test"}

\* The next key of `pipelines` after m in registry order (0: none left).
NextModel(m) ==
    IF \E n \in models : n > m
    THEN CHOOSE n \in models : n > m /\ \A q \in models : q > m => n <= q
    ELSE 0

\* except Exception: print(...); continue
ResumeSameModel(m, k) ==
    IF k < N_SPLITS THEN [cur |-> m, fold |-> k + 1]
    ELSE [cur |-> NextModel(m), fold |-> 1]
OnException(m, k) == [cur |-> NextModel(m), fold |-> 1]

\* test_preds[model_name] += pipeline.predict(X_test) / N_SPLITS
TestShareOffByOne(p) == FDiv(F(p), F(N_SPLITS + 1))
TestShare(p) == FDiv(F(p), F(N_SPLITS))

\* The generator state a kf.split call shuffles with.  random_state=SEED is an
\* int, so every call builds its generator anew from SEED (state 0); a shared
\* generator object would be n calls further along its stream at call n.
RngStateShared(n) == n
RngState(n) == 0

\* The folds drawn from a generator in state s: test_folds from the one just
\* seeded, another outcome of the shuffle (where there is one) further along.
DrawnAt(s) ==
    LET others == KFoldOutcomes(y_bins(y)) \ {test_folds}
    IN IF s = 0 \/ others = {} THEN test_folds ELSE CHOOSE tf \in others : TRUE

\* kf.split(X, y_bins), called once per model: the n-th call's fold of each row.
make_test_folds(n) == DrawnAt(RngState(n))

NoSplit == <<>>

\* The folds model m iterates over at fold k: fold 1 starts the generator of a
\* new kf.split call, later folds resume it.
FoldsOf(m, k) == IF k = 1 THEN make_test_folds(kf_calls) ELSE splitSeen[m]

SplitCall(m, k, raised) ==
    IF k = 1
    THEN /\ kf_calls' = kf_calls + 1
         /\ splitSeen' = IF raised THEN splitSeen
                         ELSE [splitSeen EXCEPT ![m] = make_test_folds(kf_calls)]
    ELSE UNCHANGED <<kf_calls, splitSeen>>

Goto(pos) ==
    /\ cur' = pos.cur
    /\ fold' = pos.fold
    /\ pc' = IF pos.cur = 0 THEN "ensemble" ELSE "train"

Refit(m, k, prep, est) ==
    /\ fitSaw' = [fitSaw EXCEPT ![m] = Append(@, [prep |-> prep_fitted, est |-> est_fitted[m]])]
    /\ prep_fitted' = IF prep THEN [model |-> m, fold |-> k] ELSE prep_fitted
    /\ est_fitted' = IF est THEN [est_fitted EXCEPT ![m] = [model |-> m, fold |-> k]]
                     ELSE est_fitted

StoreOof(m, k, pv) ==
    /\ oof_preds' = [oof_preds EXCEPT ![m] =
                        [r \in Rows |-> IF r \in ValIdx(FoldsOf(m, k), k) THEN pv[r] ELSE @[r]]]
    /\ oofWrites' = [oofWrites EXCEPT ![m] =
                        [r \in Rows |-> IF r \in ValIdx(FoldsOf(m, k), k) THEN @[r] + 1 ELSE @[r]]]

\* One iteration of the fold loop that raises nothing.  After the last fold
\* the try block prints cv_smape and looks up the feature importances, which
\* no later cell reads, and the outer loop takes the next model.
FoldOK(m, k) ==
    /\ pc = "train" /\ cur = m /\ fold = k
    /\ ~SplitRaises(y_bins(y))
    /\ SplitCall(m, k, FALSE)
    /\ \E pv \in [ValIdx(FoldsOf(m, k), k) -> PredVals], pt \in [TestRows -> PredVals] :
        /\ Refit(m, k, TRUE, TRUE)
        /\ StoreOof(m, k, pv)
        /\ test_preds' = [test_preds EXCEPT ![m] =
                            [t \in TestRows |-> FAdd(@[t], TestShare(pt[t]))]]
        /\ foldTest' = [foldTest EXCEPT ![m] = Append(@, pt)]
    /\ Goto(IF k < N_SPLITS THEN [cur |-> m, fold |-> k + 1]
            ELSE [cur |-> NextModel(m), fold |-> 1])
    /\ UNCHANGED <<failed, log>>
    /\ UNCHANGED <<detectVars, fitVars, dataVars, ensVars, submission, smapeVars>>

\* One iteration of the fold loop that raises at stage s; the except clause
\* prints the failure and continues with the next model.
FoldFail(m, k, s) ==
    /\ pc = "train" /\ cur = m /\ fold = k
    /\ SplitRaises(y_bins(y)) => s = "split"
    /\ SplitCall(m, k, SplitRaises(y_bins(y)))
    /\ IF s = "split"
       THEN UNCHANGED <<fitSaw, prep_fitted, est_fitted>>
       ELSE Refit(m, k, s # "fit_prep", s \in {"predict_val", "predict_test"})
    /\ IF s = "predict_test"
       THEN \E pv \in [ValIdx(FoldsOf(m, k), k) -> PredVals] : StoreOof(m, k, pv)
       ELSE UNCHANGED <<oof_preds, oofWrites>>
    /\ failed' = [failed EXCEPT ![m] = [fold |-> k, stage |-> s]]
    /\ log' = log \cup {m}
    /\ Goto(OnException(m, k))
    /\ UNCHANGED <<test_preds, foldTest>>
    /\ UNCHANGED <<detectVars, fitVars, dataVars, ensVars, submission, smapeVars>>

\* ------------------------------------------------------ the ensemble cell

inv_errors(errs) == [k \in DOMAIN errs |-> FDiv(F(1), errs[k])]

NormWeights(errs) ==
    [k \in DOMAIN errs |->
        FDiv(inv_errors(errs)[k], FSum(inv_errors(errs), DOMAIN errs))]

\* sum(preds[k] * norm_weights[k] for k in preds): the int 0 for no model,
\* which numpy later broadcasts, else an array.
Blend(preds, w, idx) ==
    [shape |-> IF DOMAIN preds = {} THEN "scalar" ELSE "array",
     val |-> [i \in idx |->
                FSum([k \in DOMAIN preds |-> FMul(preds[k][i], w[k])], DOMAIN preds)]]

NoBlend == [shape |-> "none", val |-> <<>>]

EnsembleCell ==
    /\ pc = "ensemble"
    /\ errors' = [name \in models |->
                    smape(ExpArr(y), ExpArr(oof_preds[name]))]
    /\ norm_weights' = NormWeights(errors')
    /\ ensemble_preds_log' = Blend(test_preds, norm_weights', TestRows)
    /\ ensemble_oof_log' =
          Blend([k \in models |-> [r \in Rows |-> F(oof_preds[k][r])]], norm_weights', Rows)
    /\ pc' = "submit"
    /\ UNCHANGED <<cur, fold, oof_preds, test_preds, failed, log, oofWrites,
                   foldTest, prep_fitted, est_fitted, fitSaw, kf_calls, splitSeen>>
    /\ UNCHANGED <<detectVars, fitVars, dataVars, submission, smapeVars>>

\* ---------------------------------------------------- the submission cell

\* An entry of ensemble_preds: [kind |-> "exp", arg |-> x] is e^x for a number
\* x (positive), [kind |-> "num", arg |-> v] is the float v itself, and
\* [kind |-> "nan", ...] is nan.
ExpOf(x) == IF IsNum(x) THEN [kind |-> "exp", arg |-> x] ELSE [kind |-> "nan", arg |-> NaN]

\* np.clip(v, a_min=0, a_max=None): max(v, 0); nan stays nan.
Clip0(v) ==
    IF v.kind = "num" /\ FLess(v.arg, F(0)) THEN [kind |-> "num", arg |-> F(0)] ELSE v

NoSubmission == [written |-> FALSE, rows |-> <<>>]

SubmissionCell ==
    /\ pc = "submit"
    /\ submission' =
          [written |-> TRUE,
           rows |-> [t \in TestRows |->
                       [id |-> t, price |-> Clip0(ExpOf(ensemble_preds_log.val[t]))]]]
    /\ pc' = "done"
    /\ UNCHANGED <<cur, fold, oof_preds, test_preds, failed, log, oofWrites,
                   foldTest, prep_fitted, est_fitted, fitSaw, kf_calls, splitSeen>>
    /\ UNCHANGED <<detectVars, fitVars, dataVars, ensVars, smapeVars>>

\* ------------------------------------------------- idle parts of the state

DetectIdle == columns = <<>> /\ detected = [ran |-> FALSE, lists |-> <<>>]
FitIdle == X = <<>> /\ bucket = "low" /\ encoder = NoEncoder
SmapeIdle == smape_args = [t |-> <<>>, p |-> <<>>] /\ smape_value = NoValue

RunIdle ==
    /\ models = {}
    /\ pc = "idle" /\ cur = 0 /\ fold = 1
    /\ oof_preds = <<>> /\ test_preds = <<>> /\ failed = <<>> /\ log = {}
    /\ oofWrites = <<>> /\ foldTest = <<>>
    /\ prep_fitted = Unfitted /\ est_fitted = <<>> /\ fitSaw = <<>>
    /\ kf_calls = 0 /\ splitSeen = <<>>
    /\ errors = <<>> /\ norm_weights = <<>>
    /\ ensemble_preds_log = NoBlend /\ ensemble_oof_log = NoBlend
    /\ submission = NoSubmission

\* ------------------------------------------------------ specifications

Init ==
    /\ DetectIdle /\ FitIdle /\ SmapeIdle
    /\ models \in SUBSET Registry
    /\ y \in [Rows -> YVals]
    /\ test_folds \in KFoldOutcomes(y_bins(y))
    /\ cur = NextModel(0) /\ fold = 1
    /\ pc = IF models = {} THEN "ensemble" ELSE "train"
    /\ oof_preds = [name \in models |-> [r \in Rows |-> 0]]
    /\ test_preds = [name \in models |-> [t \in TestRows |-> F(0)]]
    /\ failed = [name \in models |-> NoFail]
    /\ log = {}
    /\ oofWrites = [name \in models |-> [r \in Rows |-> 0]]
    /\ foldTest = [name \in models |-> <<>>]
    /\ prep_fitted = Unfitted
    /\ est_fitted = [name \in models |-> Unfitted]
    /\ fitSaw = [name \in models |-> <<>>]
    /\ kf_calls = 0
    /\ splitSeen = [name \in models |-> NoSplit]
    /\ errors = <<>> /\ norm_weights = <<>>
    /\ ensemble_preds_log = NoBlend /\ ensemble_oof_log = NoBlend
    /\ submission = NoSubmission

Next ==
    \/ \E m \in Registry, k \in Folds : FoldOK(m, k)
    \/ \E m \in Registry, k \in Folds, s \in Stages : FoldFail(m, k, s)
    \/ EnsembleCell
    \/ SubmissionCell

Spec == Init /\ [][Next]_vars

\* detect_columns applied to a drawn table.
InitDetect ==
    /\ columns \in [ColNames -> [dtype : Dtypes, nunique : NUniqueVals]]
    /\ detected = [ran |-> FALSE, lists |-> <<>>]
    /\ FitIdle /\ RunIdle /\ SmapeIdle
    /\ y = <<>> /\ test_folds = <<>>

Detect ==
    /\ ~detected.ran
    /\ detected' = [ran |-> TRUE, lists |-> detect_columns(columns)]
    /\ UNCHANGED <<columns, fitVars, dataVars, loopVars, ensVars, submission, smapeVars>>

NextDetect == Detect

SpecDetect == InitDetect /\ [][NextDetect]_vars

\* pipeline.fit of one fold applied to drawn data.
InitFit ==
    /\ X \in [Rows -> Cats]
    /\ bucket \in Buckets
    /\ y \in [Rows -> YVals]
    /\ test_folds \in StratifiedKFoldSplits(y_bins(y))
    /\ encoder = NoEncoder
    /\ DetectIdle /\ RunIdle /\ SmapeIdle

FitFold(k) ==
    /\ encoder.fold = 0
    /\ encoder' = [fold |-> k,
                   params |-> EncoderFit(bucket, X, y, PipelineFitRows(test_folds, k))]
    /\ UNCHANGED <<X, bucket, detectVars, dataVars, loopVars, ensVars, submission, smapeVars>>

NextFit == \E k \in Folds : FitFold(k)

SpecFit == InitFit /\ [][NextFit]_vars

\* smape applied to drawn paired sequences.
InitSmape ==
    /\ \E t \in SmapeInputs : \E p \in [DOMAIN t -> SmapeVals] :
          smape_args = [t |-> t, p |-> p]
    /\ smape_value = NoValue
    /\ DetectIdle /\ FitIdle /\ RunIdle
    /\ y = <<>> /\ test_folds = <<>>

SmapeCall ==
    /\ smape_value = NoValue
    /\ smape_value' = smape(AsFloat(smape_args.t), AsFloat(smape_args.p))
    /\ UNCHANGED <<smape_args, detectVars, fitVars, dataVars, loopVars, ensVars, submission>>

NextSmape == SmapeCall

SpecSmape == InitSmape /\ [][NextSmape]_vars

\* ---------------------------------------------------------------- claims

Completed(m) == failed[m].fold = 0 /\ Len(foldTest[m]) = N_SPLITS
TrainingOver == pc \in {"ensemble", "submit", "done"}
EnsembleRan == pc \in {"submit", "done"}
Survivors == {m \in models : failed[m].fold = 0}

ListsOf(L) == <<L.num_cols, L.bool_cols, L.cat_low, L.cat_mid, L.cat_high>>

\* C1: a model that raised in one of its folds is excluded from the ensemble:
\* it gets no weight, and the blended test and out-of-fold predictions are
\* those of the models that completed all folds, weighted over them alone.
C1_FailedModelsExcluded ==
    EnsembleRan =>
        LET w == NormWeights([m \in Survivors |-> errors[m]])
        IN /\ DOMAIN norm_weights = Survivors
           /\ ensemble_preds_log =
                 Blend([m \in Survivors |-> test_preds[m]], w, TestRows)
           /\ ensemble_oof_log =
                 Blend([m \in Survivors |-> [r \in Rows |-> F(oof_preds[m][r])]], w, Rows)

\* C2: when no model completed all folds (all failed, or none is active) the
\* run stops at the ensemble cell and no submission is written.
C2_NoSubmissionWithoutModel ==
    (TrainingOver /\ \A m \in models : ~Completed(m)) => ~submission.written

\* C3: a raise in fold k of model m ends m's training there (no later fit, no
\* later write to m's stores), is reported, and the loop goes on with the next
\* model in registry order; every other model still runs all its folds unless
\* it raises itself.
C3_FailureAbortsOnlyThatModel ==
    \A m \in models :
        /\ failed[m].fold # 0 =>
              /\ m \in log
              /\ cur # m
              /\ Len(fitSaw[m]) <= failed[m].fold
              /\ Len(foldTest[m]) = failed[m].fold - 1
              /\ \A r \in Rows :
                    oofWrites[m][r] =
                        IF \/ test_folds[r] + 1 < failed[m].fold
                           \/ /\ test_folds[r] + 1 = failed[m].fold
                              /\ failed[m].stage = "predict_test"
                        THEN 1 ELSE 0
        /\ (TrainingOver \/ m < cur) =>
              \/ failed[m].fold # 0
              \/ Len(fitSaw[m]) = N_SPLITS /\ Len(foldTest[m]) = N_SPLITS
        /\ (~TrainingOver /\ m > cur) =>
              failed[m].fold = 0 /\ Len(fitSaw[m]) = 0

C3_Witness ==
    /\ TrainingOver
    /\ \E m, n \in models :
          m < n /\ failed[m].fold = 1 /\ Completed(n) /\ Len(fitSaw[n]) = N_SPLITS

\* C4: the validation index sets of the folds are pairwise disjoint and cover
\* all training rows, and every out-of-fold entry of a model that completed
\* all folds has been written exactly once.
C4_FoldsPartitionRows ==
    ~SplitRaises(y_bins(y)) =>
        /\ \A j, k \in Folds :
              j # k => ValIdx(test_folds, j) \cap ValIdx(test_folds, k) = {}
        /\ UNION {ValIdx(test_folds, k) : k \in Folds} = Rows
        /\ \A m \in models : Completed(m) => \A r \in Rows : oofWrites[m][r] = 1

C4_Witness == \E m \in models : Completed(m) /\ \A r \in Rows : oofWrites[m][r] = 1

FoldTestSum(m, t) ==
    SumOver([k \in 1..Len(foldTest[m]) |-> foldTest[m][k][t]], 1..Len(foldTest[m]))

\* C5: a model's test store is the running sum of its per-fold test
\* predictions over N_SPLITS, and once all folds ran it is their arithmetic
\* mean, the divisor being the number of folds run.
C5_TestPredsAreFoldMean ==
    \A m \in models, t \in TestRows :
        /\ FMul(test_preds[m][t], F(N_SPLITS)) = F(FoldTestSum(m, t))
        /\ Completed(m) => test_preds[m][t] = Num(FoldTestSum(m, t), Len(foldTest[m]))

C5_Witness ==
    \E m \in models, t \in TestRows :
        /\ Completed(m)
        /\ \E j, k \in 1..Len(foldTest[m]) : foldTest[m][j][t] # foldTest[m][k][t]

\* C6: the encoder fitted in fold k is the same whatever the feature and
\* target values of the fold's validation rows are: refitting on data that
\* differs from X, y only on validation rows gives the same parameters.
C6_FitIgnoresValidationRows ==
    encoder.fold # 0 =>
        \A X2 \in [Rows -> Cats], y2 \in [Rows -> YVals] :
            (\A r \in TrainIdx(test_folds, encoder.fold) : X2[r] = X[r] /\ y2[r] = y[r])
                => EncoderFit(bucket, X2, y2, PipelineFitRows(test_folds, encoder.fold))
                      = encoder.params

C6_Witness ==
    /\ encoder.fold # 0
    /\ bucket = "high"
    /\ \E r, q \in ValIdx(test_folds, encoder.fold) : y[r] # y[q]

\* C7: every fit is applied to a freshly constructed preprocess and estimator:
\* neither holds fitted state of another fold or model when fit is called.
C7_FreshInstancePerFit ==
    \A m \in models :
        \A i \in 1..Len(fitSaw[m]) :
            fitSaw[m][i].prep = Unfitted /\ fitSaw[m][i].est = Unfitted

WeightsOK ==
    /\ \A m \in models : IsNum(norm_weights[m])
    /\ \A m \in models :
          norm_weights[m] =
              FDiv(FDiv(F(1), errors[m]),
                   FSum([k \in models |-> FDiv(F(1), errors[k])], models))
    /\ FSum(norm_weights, models) = F(1)
    /\ \A a, b \in models : FLess(errors[a], errors[b]) => FLess(norm_weights[b], norm_weights[a])
    /\ Cardinality(models) = 1 => \A m \in models : norm_weights[m] = F(1)

\* C8: for a non-empty set of successfully trained models, whatever their
\* errors (0 included), the weights are well defined, sum to 1, are strictly
\* higher for strictly lower error, and are 1 for a single model.
C8_WeightsWellDefined ==
    (EnsembleRan /\ models # {} /\ \A m \in models : Completed(m)) => WeightsOK

\* C9: the five lists of detect_columns are pairwise disjoint, hold no column
\* twice, and together hold exactly the input columns.
C9_ColumnsPartitioned ==
    detected.ran =>
        LET Ls == ListsOf(detected.lists)
        IN /\ \A i, j \in 1..5 : i # j => Range(Ls[i]) \cap Range(Ls[j]) = {}
           /\ \A i \in 1..5 : Cardinality(Range(Ls[i])) = Len(Ls[i])
           /\ UNION {Range(Ls[i]) : i \in 1..5} = ColNames

C9_Witness ==
    /\ detected.ran
    /\ \E c, e \in ColNames :
          /\ columns[c].dtype = "object" /\ columns[c].nunique = 0
          /\ c \in Range(detected.lists.cat_low)
          /\ columns[e].dtype = "object" /\ columns[e].nunique = 1
          /\ e \in Range(detected.lists.cat_low)

\* C10: a categorical column with d distinct values is in the low bucket iff
\* d <= 20, in the medium bucket iff 21 <= d <= 200, in the high bucket iff
\* d > 200.
C10_CardinalityBuckets ==
    detected.ran =>
        LET L == detected.lists
        IN \A c \in ColNames :
              c \notin Range(L.num_cols) \cup Range(L.bool_cols) =>
                 LET d == columns[c].nunique
                 IN /\ c \in Range(L.cat_low) <=> d <= 20
                    /\ c \in Range(L.cat_mid) <=> (21 <= d /\ d <= 200)
                    /\ c \in Range(L.cat_high) <=> d > 200

C10_Witness ==
    /\ detected.ran
    /\ \E c, e \in ColNames :
          /\ columns[c].dtype = "object" /\ columns[c].nunique = 20
          /\ c \in Range(detected.lists.cat_low)
          /\ columns[e].dtype = "object" /\ columns[e].nunique = 201
          /\ e \in Range(detected.lists.cat_high)

\* The mean, times 100, of |t - p| / ((|t| + |p|) / 2) over the elements, an
\* element whose denominator is 0 counting 0; in exact integer arithmetic.
SmapeSpecTerm(t, p) == IF Abs(t) + Abs(p) = 0 THEN F(0) ELSE Num(2 * Abs(t - p), Abs(t) + Abs(p))

SmapeSpecMean(t, p) ==
    LET total == FSum([i \in DOMAIN t |-> SmapeSpecTerm(t[i], p[i])], DOMAIN t)
    IN FMul(total, Num(100, Len(t)))

\* C11: for paired sequences t, p of equal non-zero length, smape(t, p) is the
\* mean over the elements of |t - p| / ((|t| + |p|) / 2), times 100, with an
\* element's term taken as 0 when its denominator is 0; so smape(t, t) = 0,
\* smape(t, p) = smape(p, t), and the result is a number, never undefined.
C11_SmapeIsGuardedMean ==
    smape_value # NoValue =>
        LET t == smape_args.t
            p == smape_args.p
        IN /\ smape_value = SmapeSpecMean(t, p)
           /\ IsNum(smape_value)
           /\ t = p => smape_value = F(0)
           /\ smape(AsFloat(p), AsFloat(t)) = smape_value

C11_Witness ==
    /\ smape_value # NoValue
    /\ \E i \in DOMAIN smape_args.t : smape_args.t[i] = 0 /\ smape_args.p[i] = 0
    /\ \E i \in DOMAIN smape_args.t : smape_args.t[i] * smape_args.p[i] < 0
    /\ smape_value = F(100)

\* v >= 0 for an entry of ensemble_preds; nan >= 0 is false.
NonNegative(v) ==
    \/ v.kind = "exp" /\ IsNum(v.arg)
    \/ v.kind = "num" /\ IsNum(v.arg) /\ ~FLess(v.arg, F(0))

\* C12: the submission has exactly one record per test row, with the test
\* table's identifiers in the same order, each value is max(prediction, 0),
\* and so every written value is >= 0.
C12_SubmissionClippedPerTestRow ==
    submission.written =>
        /\ DOMAIN submission.rows = TestRows
        /\ \A t \in TestRows :
              LET prediction == ExpOf(ensemble_preds_log.val[t])
                  row == submission.rows[t]
              IN /\ row.id = t
                 /\ row.price = (IF NonNegative(prediction) \/ prediction.kind = "nan"
                                 THEN prediction ELSE [kind |-> "num", arg |-> F(0)])
                 /\ NonNegative(row.price)

\* C13: every model is trained and validated on the same (train, validation)
\* index partitions, in the same fold order, although kf.split is called again
\* for each model: the folds a later call draws equal those of the first.
C13_SameFoldsForEveryModel ==
    \A m \in models : \A n \in models :
        splitSeen[m] # NoSplit /\ splitSeen[n] # NoSplit =>
            /\ splitSeen[m] = splitSeen[n]
            /\ \A k \in Folds :
                  /\ ValIdx(splitSeen[m], k) = ValIdx(splitSeen[n], k)
                  /\ TrainIdx(splitSeen[m], k) = TrainIdx(splitSeen[n], k)

C13_Witness ==
    /\ TrainingOver
    /\ kf_calls >= 2
    /\ Cardinality(KFoldOutcomes(y_bins(y))) > 1
    /\ \E m \in models : \E n \in models :
          /\ m < n /\ Completed(m) /\ Completed(n)
          /\ splitSeen[m] # NoSplit /\ splitSeen[n] = splitSeen[m]

\* Storage types that are integers, of either signedness, or floats.
IntegerOrFloat == {"int64", "uint8", "float64"}

\* C14: a column is classified boolean iff its storage type is boolean,
\* otherwise numeric iff its storage type is an integer (of any width or
\* signedness) or floating-point type, and categorical otherwise; no integer-
\* or float-typed column is routed to a categorical bucket.
C14_ClassifiedByStorageType ==
    detected.ran =>
        LET L == detected.lists
            categorical == Range(L.cat_low) \cup Range(L.cat_mid) \cup Range(L.cat_high)
        IN \A c \in ColNames :
              LET dtype == columns[c].dtype
              IN /\ c \in Range(L.bool_cols) <=> dtype = "bool"
                 /\ c \in Range(L.num_cols) <=> dtype \in IntegerOrFloat
                 /\ c \in categorical <=> dtype \notin IntegerOrFloat \cup {"bool"}

====
